---- MODULE Spec2Model ----
(***************************************************************************)
(* Lowering of a typed AST to backend IR (src/src/cranelift.rs).           *)
(*                                                                         *)
(* The state is the position of `translate` in its loop over the top-level *)
(* items, and, for the function being lowered, the signature, the symbol   *)
(* table (Ctx), and the FunctionBuilder's instruction stream and variable  *)
(* tables.  Recursive lowering of one expression is a recursive operator   *)
(* over a lowering state; one action lowers one body statement.            *)
(***************************************************************************)
EXTENDS Integers, Sequences, FiniteSets

VARIABLES
    ast,              \* translate's argument: the top-level items
    debug_assertions, \* whether the build keeps the builder's debug assertions
    hole_env_ty,      \* what type_of gives an identifier absent from its environment
    pc,               \* "start" | "translate" | "signature" | "function" | "done" |
                      \* "panic" | "error"
    abort,            \* the panic message, "" while none
    item,             \* 1-based index of the top-level item at hand
    func_sig,         \* the signature of the function being lowered
    param_tys,        \* the filtered machine types of its parameters
    ctx,              \* Ctx: variables, variable_counter
    builder,          \* FunctionBuilder: instructions, values, variables, entry block
    calls,            \* the calls made on Ctx so far in this function, with their results
    param_i,          \* next iteration of the parameter loop
    stmt_i,           \* next iteration of the body loop
    finalized,        \* builder.finalize() has returned in this call of translate_function
    module,           \* ObjectModule: the functions defined so far
    object_written    \* `<module_name>.o` has been written

vars == <<ast, debug_assertions, hole_env_ty, pc, abort, item, func_sig, param_tys,
          ctx, builder, calls, param_i, stmt_i, finalized, module, object_written>>

----------------------------------------------------------------------------
(* Bounds of the model.                                                    *)

MaxBody == 3      \* statements in a function body
MaxParams == 2    \* parameters of a function
MaxItems == 2     \* top-level items of a module with several

----------------------------------------------------------------------------
(* Source types (crate::parse::T).                                         *)

Ty(tag) == [tag |-> tag, sub |-> <<>>]
Hole == Ty("Hole")
Unit == Ty("Unit")
BuiltIn(b) == Ty(b)
Record(fields) == [tag |-> "Record", sub |-> fields]
FunctionTy(params, ret) == [tag |-> "Function", sub |-> params \o <<ret>>]

BuiltinType == {"Int", "Float", "String", "Array", "Char", "Bool"}

(* Option<T>: <<>> is None, <<t>> is Some(t).  The result of a call that    *)
(* may panic is a record: panic, or the Option it returns.                 *)
None == <<>>
Some(x) == <<x>>
Returns(opt) == [panic |-> FALSE, opt |-> opt]
Panics == [panic |-> TRUE, opt |-> None]

type_to_cranelift_int64(ty) ==
    CASE ty.tag = "Hole" -> Panics
      [] ty.tag = "Unit" -> Returns(None)
      [] ty.tag = "Int" -> Returns(Some("I64"))
      [] ty.tag = "Float" -> Returns(Some("F64"))
      [] ty.tag \in {"String", "Array"} -> Returns(Some("I64"))
      [] ty.tag \in {"Char", "Bool"} -> Returns(Some("I8"))
      [] ty.tag \in {"Record", "Function"} -> Returns(Some("I64"))

type_to_cranelift_nohole(ty) ==
    CASE ty.tag = "Hole" -> Returns(None)
      [] ty.tag = "Unit" -> Returns(None)
      [] ty.tag = "Int" -> Returns(Some("I32"))
      [] ty.tag = "Float" -> Returns(Some("F64"))
      [] ty.tag \in {"String", "Array"} -> Returns(Some("I64"))
      [] ty.tag \in {"Char", "Bool"} -> Returns(Some("I8"))
      [] ty.tag \in {"Record", "Function"} -> Returns(Some("I64"))

type_to_cranelift(ty) ==
    CASE ty.tag = "Hole" -> Panics
      [] ty.tag = "Unit" -> Returns(None)
      [] ty.tag = "Int" -> Returns(Some("I32"))
      [] ty.tag = "Float" -> Returns(Some("F64"))
      [] ty.tag \in {"String", "Array"} -> Returns(Some("I64"))
      [] ty.tag \in {"Char", "Bool"} -> Returns(Some("I8"))
      [] ty.tag \in {"Record", "Function"} -> Returns(Some("I64"))

----------------------------------------------------------------------------
(* Expressions (crate::parse::Expression).                                 *)

Expr(kind, name, num, sub) == [kind |-> kind, name |-> name, num |-> num, sub |-> sub]
IntLit(i) == Expr("Int", "", i, <<>>)
BoolLit(b) == Expr("Bool", "", IF b THEN 1 ELSE 0, <<>>)
Identifier(n) == Expr("Identifier", n, 0, <<>>)
Assignment(ident, binding) == Expr("Assignment", ident, 0, <<binding>>)
Infix(operation, lhs, rhs) == Expr("Infix", operation, 0, <<lhs, rhs>>)
Return(e) == Expr("Return", "", 0, <<e>>)
BlockExpr(instructions) == Expr("Block", "", 0, instructions)
Call == Expr("Call", "f", 0, <<>>)
Func(name, params, return_ty, body) ==
    [kind |-> "Function", name |-> name, params |-> params,
     return_ty |-> return_ty, body |-> body]
Param(name, ty) == [name |-> name, ty |-> ty]

----------------------------------------------------------------------------
(* The lowering state threaded through one function's lowering: the Ctx,   *)
(* the FunctionBuilder, the calls made on the Ctx, the panic message if    *)
(* the lowering has panicked, and the value or variable last returned.     *)

PanicHole == "Hit bottom type when translating to IR"
PanicUndefined == "undefined identifier"
PanicUnimplemented == "not implemented"
PanicUnwrapNone == "called Option::unwrap() on a None value"
PanicParamTys == "index out of bounds: param_tys[idx]"
PanicBlockParams == "index out of bounds: block_params(block)[idx]"
PanicTopLevel == "top level must be function"
PanicArch == "arch isnt supported"
PanicIsa == "isa builder not finished"
PanicObjectBuilder == "object builder not supported"
PanicDefVar == "declared type of variable does not match type of value"
PanicFilled == "you cannot add an instruction to a block already filled"
PanicNotFilled == "FunctionBuilder finalized, but block is not filled"

NewCtx == [variables |-> {}, variable_counter |-> 0]

(* FunctionBuilder::new, create_block, switch_to_block, seal_block: one    *)
(* entry block, with no block parameters appended to it.                   *)
NewBuilder ==
    [insts |-> <<>>, value_tys |-> <<>>, var_tys |-> <<>>, var_defs |-> <<>>,
     blocks |-> 1, block_params |-> <<>>, filled |-> FALSE]

Panic(st, msg) == [st EXCEPT !.abort = msg]

(* Ctx::declare_variable: a fresh Variable numbered by the counter, the    *)
(* counter advanced, the variable declared to the builder, the name bound  *)
(* to it in place of any earlier binding.                                  *)
declare_variable_no_advance(st, name, ty) ==
    LET var == st.ctx.variable_counter
        put(seq, x) == IF var + 1 <= Len(seq) THEN [seq EXCEPT ![var + 1] = x]
                       ELSE Append(seq, x) IN
    [st EXCEPT
        !.ctx = [variables |-> {p \in @.variables : p[1] # name} \cup {<<name, var>>},
                 variable_counter |-> @.variable_counter],
        !.builder.var_tys = put(@, ty),
        !.builder.var_defs = put(@, None),
        !.calls = Append(@, [call |-> "declare_variable", name |-> name, var |-> Some(var)]),
        !.var = var]

declare_variable(st, name, ty) ==
    LET var == st.ctx.variable_counter IN
    [st EXCEPT
        !.ctx = [variables |-> {p \in @.variables : p[1] # name} \cup {<<name, var>>},
                 variable_counter |-> @.variable_counter + 1],
        !.builder.var_tys = Append(@, ty),
        !.builder.var_defs = Append(@, None),
        !.calls = Append(@, [call |-> "declare_variable", name |-> name, var |-> Some(var)]),
        !.var = var]

(* Ctx::get_variable: the variable bound to the name, if any.              *)
get_variable(c, name) ==
    IF \E p \in c.variables : p[1] = name
    THEN Some((CHOOSE p \in c.variables : p[1] = name)[2])
    ELSE None

(* builder.ins().<op>: append an instruction to the current block.  An     *)
(* instruction other than return defines the next value.  The builder's    *)
(* debug assertion refuses an instruction after a terminator.              *)
ins(st, op, ty, imm, args) ==
    IF debug_assertions /\ st.builder.filled THEN Panic(st, PanicFilled)
    ELSE IF op = "return"
    THEN [st EXCEPT
            !.builder.insts = Append(@, [op |-> op, ty |-> ty, imm |-> imm,
                                         args |-> args, res |-> None]),
            !.builder.filled = TRUE]
    ELSE LET v == Len(st.builder.value_tys) IN
         [st EXCEPT
            !.builder.insts = Append(@, [op |-> op, ty |-> ty, imm |-> imm,
                                         args |-> args, res |-> Some(v)]),
            !.builder.value_tys = Append(@, ty),
            !.val = v]

value_type(st, v) == st.builder.value_tys[v + 1]

(* builder.def_var: panics when the value's type is not the variable's.    *)
def_var(st, var, val) ==
    IF st.builder.var_tys[var + 1] # value_type(st, val) THEN Panic(st, PanicDefVar)
    ELSE [st EXCEPT !.builder.var_defs[var + 1] = Some(val)]

(* builder.use_var in the sealed entry block: the value last defined.      *)
use_var(st, var) == [st EXCEPT !.val = st.builder.var_defs[var + 1][1]]

----------------------------------------------------------------------------
(* Expression::type_of (crate::parse), read from the specification: the    *)
(* inferred type of an expression under a type environment, a set of       *)
(* <<name, type>> pairs.  What it gives an identifier that the environment *)
(* does not hold is left open: hole_env_ty.                                *)

RECURSIVE type_of(_, _)
type_of(expr, env) ==
    CASE expr.kind = "Int" -> BuiltIn("Int")
      [] expr.kind = "Bool" -> BuiltIn("Bool")
      [] expr.kind = "Identifier" ->
            IF \E p \in env : p[1] = expr.name
            THEN (CHOOSE p \in env : p[1] = expr.name)[2]
            ELSE hole_env_ty
      [] expr.kind \in {"Assignment", "Infix", "Return"} -> type_of(expr.sub[1], env)
      [] expr.kind = "Block" -> Unit
      [] OTHER -> Hole

----------------------------------------------------------------------------
(* Expression lowering.                                                    *)

RECURSIVE translate_expression(_, _)
RECURSIVE translate_instructions(_, _, _)

translate_literal(literal, st) ==
    IF literal.kind = "Bool" THEN ins(st, "iconst", "I8", literal.num, <<>>)
    ELSE ins(st, "iconst", "I32", literal.num, <<>>)

(* A slip of translate_assignment: the variable declared before the        *)
(* binding is lowered.                                                     *)
translate_assignment_declare_first(ident, binding, ty, st) ==
    LET t == type_to_cranelift(ty) IN
    IF t.panic THEN Panic(st, PanicHole)
    ELSE IF t.opt = None THEN Panic(st, PanicUnwrapNone)
    ELSE LET s1 == declare_variable(st, ident, t.opt[1])
             s2 == translate_expression(binding, s1) IN
         IF s2.abort # "" THEN s2 ELSE def_var(s2, s1.var, s2.val)

translate_assignment(ident, binding, ty, st) ==
    LET s1 == translate_expression(binding, st)
        t == type_to_cranelift(ty) IN
    IF s1.abort # "" THEN s1
    ELSE IF t.panic THEN Panic(s1, PanicHole)
    ELSE IF t.opt = None THEN Panic(s1, PanicUnwrapNone)
    ELSE LET s2 == declare_variable(s1, ident, t.opt[1]) IN
         def_var(s2, s2.var, s1.val)

translate_infix(operation, lhs, rhs, st) ==
    LET s1 == translate_expression(lhs, st)
        s2 == translate_expression(rhs, s1) IN
    IF s1.abort # "" THEN s1
    ELSE IF s2.abort # "" THEN s2
    ELSE CASE operation = "Plus" -> ins(s2, "iadd", value_type(s2, s1.val), 0, <<s1.val, s2.val>>)
           [] operation = "Min" -> ins(s2, "isub", value_type(s2, s1.val), 0, <<s1.val, s2.val>>)
           [] operation = "Mul" -> ins(s2, "imul", value_type(s2, s1.val), 0, <<s1.val, s2.val>>)
           [] operation = "Div" -> ins(s2, "sdiv", value_type(s2, s1.val), 0, <<s1.val, s2.val>>)
           [] OTHER -> Panic(s2, PanicUnimplemented)

(* translate_block: a block is created and never switched to; the          *)
(* instructions are lowered where the builder stands.                      *)
translate_block(b, st) ==
    translate_instructions(b.sub, 1, [st EXCEPT !.builder.blocks = @ + 1])

translate_instructions(instructions, i, st) ==
    IF st.abort # "" \/ i > Len(instructions) THEN st
    ELSE translate_instructions(instructions, i + 1,
                                translate_expression(instructions[i], st))

(* Expression::Identifier *)
translate_identifier(expr, st) ==
    LET found == get_variable(st.ctx, expr.name)
        s1 == [st EXCEPT !.calls = Append(@, [call |-> "get_variable",
                                              name |-> expr.name, var |-> found])] IN
    IF found # None THEN use_var(s1, found[1]) ELSE Panic(s1, PanicUndefined)

(* Expression::Return *)
translate_return(expr, st) ==
    LET s1 == translate_expression(expr.sub[1], st) IN
    IF s1.abort # "" THEN s1
    ELSE [ins(s1, "return", "", 0, <<s1.val>>) EXCEPT !.val = s1.val]

translate_expression(expr, st) ==
    CASE expr.kind \in {"Int", "Bool"} -> translate_literal(expr, st)
      [] expr.kind = "Assignment" ->
            LET ty == type_of(expr, {})
                s1 == translate_assignment(expr.name, expr.sub[1], ty, st) IN
            IF s1.abort # "" THEN s1 ELSE ins(s1, "iconst", "I64", 0, <<>>)
      [] expr.kind = "Identifier" -> translate_identifier(expr, st)
      [] expr.kind = "Infix" -> translate_infix(expr.name, expr.sub[1], expr.sub[2], st)
      [] expr.kind = "Return" -> translate_return(expr, st)
      [] expr.kind = "Block" ->
            LET s1 == translate_block(expr, st) IN
            IF s1.abort # "" THEN s1 ELSE ins(s1, "iconst", "I64", 0, <<>>)
      [] OTHER -> Panic(st, PanicUnimplemented)

----------------------------------------------------------------------------
(* Function lowering.                                                      *)

(* A slip of the parameter filter: a Unit parameter kept as a pointer.     *)
RECURSIVE filter_map_params_keep_unit(_)
filter_map_params_keep_unit(params) ==
    IF params = <<>> THEN [panic |-> FALSE, tys |-> <<>>]
    ELSE LET t == type_to_cranelift(Head(params).ty)
             rest == filter_map_params_keep_unit(Tail(params)) IN
         IF t.panic \/ rest.panic THEN [panic |-> TRUE, tys |-> <<>>]
         ELSE [panic |-> FALSE,
               tys |-> (IF t.opt = None THEN <<"I64">> ELSE t.opt) \o rest.tys]

(* func.params.iter().filter_map(|(_, ty)| type_to_cranelift(ty)).collect() *)
RECURSIVE filter_map_params(_)
filter_map_params(params) ==
    IF params = <<>> THEN [panic |-> FALSE, tys |-> <<>>]
    ELSE LET t == type_to_cranelift(Head(params).ty)
             rest == filter_map_params(Tail(params)) IN
         IF t.panic \/ rest.panic THEN [panic |-> TRUE, tys |-> <<>>]
         ELSE [panic |-> FALSE, tys |-> t.opt \o rest.tys]

(* The backend's verifier, which define_function runs before it compiles:  *)
(* the entry block's parameters are the signature's, the block ends with   *)
(* its only terminator, the operands of an instruction have its type, and  *)
(* a return carries the values the signature returns.                      *)
verify_function(sig, b) ==
    /\ [j \in 1..Len(b.block_params) |-> b.value_tys[b.block_params[j] + 1]] = sig.params
    /\ b.insts # <<>>
    /\ \A k \in 1..Len(b.insts) : (b.insts[k].op = "return") <=> (k = Len(b.insts))
    /\ \A k \in 1..Len(b.insts) :
          LET i == b.insts[k] IN
          IF i.op = "return"
          THEN [j \in 1..Len(i.args) |-> b.value_tys[i.args[j] + 1]] = sig.returns
          ELSE \A j \in 1..Len(i.args) : b.value_tys[i.args[j] + 1] = i.ty

St == [ctx |-> ctx, builder |-> builder, calls |-> calls, abort |-> "", val |-> 0, var |-> 0]

CurFunc == ast[item]

(* translate_function, lines 157-186: the signature, the declaration, the  *)
(* builder with its entry block, the Ctx.                                  *)
FnSignature ==
    /\ pc = "signature"
    /\ LET pt == filter_map_params(CurFunc.params)
           rt == type_to_cranelift(CurFunc.return_ty) IN
       IF pt.panic \/ rt.panic
       THEN /\ pc' = "panic"
            /\ abort' = PanicHole
            /\ UNCHANGED <<func_sig, param_tys, ctx, builder, calls, param_i, stmt_i>>
       ELSE /\ param_tys' = pt.tys
            /\ func_sig' = [params |-> pt.tys, returns |-> rt.opt]
            /\ \E declared \in BOOLEAN : pc' = IF declared THEN "function" ELSE "error"
            /\ builder' = NewBuilder
            /\ ctx' = NewCtx
            /\ calls' = <<>>
            /\ param_i' = 1
            /\ stmt_i' = 1
            /\ abort' = abort
    /\ UNCHANGED <<ast, debug_assertions, hole_env_ty, item, finalized, module,
                   object_written>>

(* One iteration of the parameter loop, lines 188-192.                     *)
FnBindParam ==
    /\ pc = "function"
    /\ param_i <= Len(CurFunc.params)
    /\ IF param_i > Len(param_tys)
       THEN /\ pc' = "panic"
            /\ abort' = PanicParamTys
            /\ UNCHANGED <<ctx, builder, calls, param_i>>
       ELSE LET s1 == declare_variable(St, CurFunc.params[param_i].name, param_tys[param_i])
                s2 == IF param_i > Len(s1.builder.block_params)
                      THEN Panic(s1, PanicBlockParams)
                      ELSE def_var(s1, s1.var, s1.builder.block_params[param_i]) IN
            /\ ctx' = s2.ctx
            /\ builder' = s2.builder
            /\ calls' = s2.calls
            /\ abort' = s2.abort
            /\ pc' = IF s2.abort # "" THEN "panic" ELSE pc
            /\ param_i' = IF s2.abort # "" THEN param_i ELSE param_i + 1
    /\ UNCHANGED <<ast, debug_assertions, hole_env_ty, item, func_sig, param_tys, stmt_i,
                   finalized, module, object_written>>

(* One iteration of the body loop, lines 194-196.                          *)
FnStmt ==
    /\ pc = "function"
    /\ param_i > Len(CurFunc.params)
    /\ stmt_i <= Len(CurFunc.body)
    /\ LET s1 == translate_expression(CurFunc.body[stmt_i], St) IN
       /\ ctx' = s1.ctx
       /\ builder' = s1.builder
       /\ calls' = s1.calls
       /\ abort' = s1.abort
       /\ pc' = IF s1.abort # "" THEN "panic" ELSE pc
       /\ stmt_i' = IF s1.abort # "" THEN stmt_i ELSE stmt_i + 1
    /\ UNCHANGED <<ast, debug_assertions, hole_env_ty, item, func_sig, param_tys, param_i,
                   finalized, module, object_written>>

(* builder.finalize() and module.define_function, lines 198-201.  The      *)
(* builder's debug assertion wants a block that holds instructions to be   *)
(* filled; define_function fails on a function the verifier refuses, and   *)
(* may fail on any other.                                                  *)
FnFinalize ==
    /\ pc = "function"
    /\ param_i > Len(CurFunc.params)
    /\ stmt_i > Len(CurFunc.body)
    /\ IF debug_assertions /\ builder.insts # <<>> /\ ~builder.filled
       THEN /\ pc' = "panic"
            /\ abort' = PanicNotFilled
            /\ UNCHANGED <<finalized, module, item>>
       ELSE /\ finalized' = TRUE
            /\ abort' = abort
            /\ \E defined \in {FALSE, verify_function(func_sig, builder)} :
                 IF defined
                 THEN /\ module' = Append(module, [name |-> CurFunc.name,
                                                   signature |-> func_sig,
                                                   insts |-> builder.insts])
                      /\ item' = item + 1
                      /\ pc' = "translate"
                 ELSE /\ pc' = "error"
                      /\ UNCHANGED <<module, item>>
    /\ UNCHANGED <<ast, debug_assertions, hole_env_ty, func_sig, param_tys, ctx, builder,
                   calls, param_i, stmt_i, object_written>>

----------------------------------------------------------------------------
(* Module emission.                                                        *)

(* The host's ISA and the object module, lines 205-212: each of the three  *)
(* expects panics when the host does not provide what it asks for.         *)
SetupPanics == {PanicArch, PanicIsa, PanicObjectBuilder}

TranslateSetup ==
    /\ pc = "start"
    /\ \/ pc' = "translate" /\ abort' = abort
       \/ pc' = "panic" /\ abort' \in SetupPanics
    /\ UNCHANGED <<ast, debug_assertions, hole_env_ty, item, func_sig, param_tys, ctx,
                   builder, calls, param_i, stmt_i, finalized, module, object_written>>

(* A slip of the loop of translate: an item that is no function skipped.   *)
TranslateItemSkip ==
    /\ pc = "translate"
    /\ item <= Len(ast)
    /\ IF CurFunc.kind = "Function"
       THEN pc' = "signature" /\ item' = item /\ finalized' = FALSE
       ELSE pc' = "translate" /\ item' = item + 1 /\ finalized' = finalized
    /\ UNCHANGED <<ast, debug_assertions, hole_env_ty, abort, func_sig, param_tys, ctx,
                   builder, calls, param_i, stmt_i, module, object_written>>

(* The match on one top-level item, lines 214-218.                         *)
TranslateItem ==
    /\ pc = "translate"
    /\ item <= Len(ast)
    /\ IF CurFunc.kind = "Function"
       THEN pc' = "signature" /\ abort' = abort /\ finalized' = FALSE
       ELSE pc' = "panic" /\ abort' = PanicTopLevel /\ finalized' = finalized
    /\ UNCHANGED <<ast, debug_assertions, hole_env_ty, item, func_sig, param_tys, ctx,
                   builder, calls, param_i, stmt_i, module, object_written>>

(* module.finish(), object.emit() and the write of the file, lines         *)
(* 221-223; emit and write may fail.                                       *)
Finish ==
    /\ pc = "translate"
    /\ item > Len(ast)
    /\ \E written \in BOOLEAN :
         /\ object_written' = written
         /\ pc' = IF written THEN "done" ELSE "error"
    /\ UNCHANGED <<ast, debug_assertions, hole_env_ty, abort, item, func_sig, param_tys,
                   ctx, builder, calls, param_i, stmt_i, finalized, module>>

----------------------------------------------------------------------------
(* The inputs: the modules handed to translate.                            *)

RECURSIVE SeqsUpTo(_, _)
SeqsUpTo(S, n) ==
    IF n = 0 THEN {<<>>}
    ELSE LET shorter == SeqsUpTo(S, n - 1) IN
         shorter \cup {Append(q, x) : q \in {r \in shorter : Len(r) = n - 1}, x \in S}

NestedTys == {Hole, BuiltIn("Int")}
SourceTypes ==
    {Hole, Unit} \cup {BuiltIn(b) : b \in BuiltinType}
    \cup {Record(<<>>)} \cup {Record(<<t>>) : t \in NestedTys}
    \cup {FunctionTy(<<>>, Unit)} \cup {FunctionTy(<<t>>, BuiltIn("Int")) : t \in NestedTys}
    \cup {FunctionTy(<<>>, Hole)}
ParamTypes == {Hole, Unit, BuiltIn("Int"), BuiltIn("Bool"), Record(<<Hole>>)}

ParamNames == <<"a", "b", "c", "d">>
Named(tys) == [i \in 1..Len(tys) |-> Param(ParamNames[i], tys[i])]

(* Functions that vary in their parameters and return type. *)
SignatureFuncs ==
    {Func("f", Named(tys), ret, body) :
        tys \in SeqsUpTo(ParamTypes, MaxParams), ret \in SourceTypes,
        body \in {<<>>, <<Return(BlockExpr(<<>>))>>}}
    \cup {Func("f", Named(<<ty>>), Unit, <<>>) : ty \in SourceTypes}

(* add(a: Int, b: Int) -> Int { return a + b } *)
AddFunc ==
    Func("add", Named(<<BuiltIn("Int"), BuiltIn("Int")>>), BuiltIn("Int"),
         <<Return(Infix("Plus", Identifier("a"), Identifier("b")))>>)

(* Functions without parameters that vary in their body. *)
IntLits == {1, 2}
CoreStmts ==
    {Assignment("x", IntLit(i)) : i \in IntLits}
    \cup {Assignment("x", Infix("Plus", Identifier("x"), IntLit(1))),
          Assignment("y", Identifier("x")),
          Return(Identifier("x")),
          BlockExpr(<<Return(IntLit(1))>>)}
OtherStmts ==
    {Return(IntLit(1)), Return(BoolLit(TRUE)), Return(BlockExpr(<<>>)), Call,
     Infix("Eq", IntLit(1), IntLit(1)),
     Assignment("x", Return(IntLit(1))),
     Assignment("x", BlockExpr(<<>>)),
     Assignment("x", BoolLit(FALSE))}
    \cup {Return(Infix(op, IntLit(2), IntLit(1))) : op \in {"Min", "Mul", "Div"}}
BodyFuncs ==
    {Func("f", <<>>, ret, body) :
        ret \in {Unit, BuiltIn("Int")},
        body \in SeqsUpTo(CoreStmts, MaxBody) \cup {<<s>> : s \in OtherStmts}}

(* Modules of several items, functions or not. *)
GoodFunc == Func("g", <<>>, BuiltIn("Int"), <<Return(IntLit(1))>>)
TopItems == {GoodFunc, IntLit(1)}

Modules ==
    {<<f>> : f \in SignatureFuncs \cup {AddFunc} \cup BodyFuncs}
    \cup SeqsUpTo(TopItems, MaxItems)

RECURSIVE Idents(_)
Idents(e) ==
    IF e.kind = "Identifier" THEN {e.name}
    ELSE UNION {Idents(e.sub[i]) : i \in 1..Len(e.sub)}

RECURSIVE AssignmentReadsEnv(_)
AssignmentReadsEnv(e) ==
    \/ e.kind = "Assignment" /\ Idents(e.sub[1]) # {}
    \/ \E i \in 1..Len(e.sub) : AssignmentReadsEnv(e.sub[i])

(* hole_env_ty is read only when an assignment's binding holds an          *)
(* identifier; elsewhere one value stands for all.                         *)
HoleEnvTys(m) ==
    IF \E i \in 1..Len(m) : m[i].kind = "Function" /\
          \E j \in 1..Len(m[i].body) : AssignmentReadsEnv(m[i].body[j])
    THEN {Hole, Unit, BuiltIn("Int"), BuiltIn("Bool")}
    ELSE {Hole}

Init ==
    /\ ast \in Modules
    /\ debug_assertions \in BOOLEAN
    /\ hole_env_ty \in HoleEnvTys(ast)
    /\ pc = "start"
    /\ abort = ""
    /\ item = 1
    /\ func_sig = [params |-> <<>>, returns |-> <<>>]
    /\ param_tys = <<>>
    /\ ctx = NewCtx
    /\ builder = NewBuilder
    /\ calls = <<>>
    /\ param_i = 1
    /\ stmt_i = 1
    /\ finalized = FALSE
    /\ module = <<>>
    /\ object_written = FALSE

Next ==
    \/ TranslateSetup
    \/ TranslateItem
    \/ FnSignature
    \/ FnBindParam
    \/ FnStmt
    \/ FnFinalize
    \/ Finish

Spec == Init /\ [][Next]_vars

----------------------------------------------------------------------------
(* Properties.                                                             *)

IsFunction(e) == e.kind = "Function"
InFunction == pc = "function" /\ item <= Len(ast)

(* The machine types of section 3 of the specification, by variant.        *)
MachineTypeOf(ty) ==
    CASE ty.tag = "Unit" -> <<>>
      [] ty.tag \in {"Bool", "Char"} -> <<"I8">>
      [] ty.tag = "Int" -> <<"I32">>
      [] ty.tag = "Float" -> <<"F64">>
      [] ty.tag \in {"String", "Array", "Record", "Function"} -> <<"I64">>

RECURSIVE MachineTypesOf(_)
MachineTypesOf(params) ==
    IF params = <<>> THEN <<>>
    ELSE MachineTypeOf(Head(params).ty) \o MachineTypesOf(Tail(params))

DirectHole(f) ==
    \/ f.return_ty = Hole
    \/ \E i \in 1..Len(f.params) : f.params[i].ty = Hole

RECURSIVE HoleIn(_)
HoleIn(ty) == ty = Hole \/ \E i \in 1..Len(ty.sub) : HoleIn(ty.sub[i])

HoleAnywhere(f) ==
    \/ HoleIn(f.return_ty)
    \/ \E i \in 1..Len(f.params) : HoleIn(f.params[i].ty)

(* C2: the signature's parameters are the machine types of the non-Unit    *)
(* parameters in declaration order, Unit parameters dropped; it has one    *)
(* return of the lowered return type when that type is not Unit, and none  *)
(* when it is Unit.                                                        *)
C2_Signature ==
    InFunction =>
        LET kept == SelectSeq(CurFunc.params, LAMBDA p : p.ty # Unit) IN
        /\ Len(func_sig.params) = Len(kept)
        /\ \A k \in 1..Len(kept) :
              func_sig.params[k] = type_to_cranelift(kept[k].ty).opt[1]
        /\ IF CurFunc.return_ty = Unit
           THEN func_sig.returns = <<>>
           ELSE func_sig.returns = <<type_to_cranelift(CurFunc.return_ty).opt[1]>>

C2_Witness ==
    /\ InFunction
    /\ Len(CurFunc.params) = 2
    /\ CurFunc.params[1].ty = Unit
    /\ CurFunc.params[2].ty = BuiltIn("Int")
    /\ func_sig = [params |-> <<"I32">>, returns |-> <<"F64">>]

(* C3: on every source type but Hole, type_to_cranelift returns, and       *)
(* returns the machine type of the variant whatever the variant holds: the *)
(* signature step panics only on a Hole parameter or return type, and      *)
(* otherwise leaves the machine types of the table.                        *)
C3_TypeLowering ==
    [][pc = "signature" =>
        /\ (pc' = "panic") <=> DirectHole(CurFunc)
        /\ pc' # "panic" =>
              /\ param_tys' = MachineTypesOf(CurFunc.params)
              /\ func_sig'.returns = MachineTypeOf(CurFunc.return_ty)]_vars

C3_Witness ==
    /\ InFunction
    /\ Len(CurFunc.params) = 1
    /\ CurFunc.params[1].ty = Record(<<Hole>>)
    /\ param_tys = <<"I64">>
    /\ CurFunc.return_ty = Unit
    /\ func_sig.returns = <<>>

(* C5 as stated: a Hole anywhere in the types of a function, nested in a   *)
(* Record or a function type included, keeps the object file from being    *)
(* written.                                                                *)
C5_HoleAnywhereAborts ==
    object_written => \A i \in 1..Len(ast) : IsFunction(ast[i]) => ~HoleAnywhere(ast[i])

(* C5, amended: a function one of whose parameters has the type Hole, or   *)
(* whose return type is Hole, is never lowered past its signature, and the *)
(* object file is never written.                                           *)
C5_DirectHoleAborts ==
    /\ InFunction => ~DirectHole(CurFunc)
    /\ \A i \in 1..Len(ast) :
          IsFunction(ast[i]) /\ DirectHole(ast[i]) => ~object_written /\ Len(module) < i

C5_Witness ==
    /\ pc = "panic"
    /\ abort = PanicHole
    /\ IsFunction(CurFunc)
    /\ CurFunc.return_ty = Hole
    /\ \A i \in 1..Len(CurFunc.params) : CurFunc.params[i].ty # Hole
    /\ ~object_written

(* C6: the object file is written only when every top-level item is a      *)
(* function and has been lowered; the loop never goes past an item that is *)
(* no function, which panics even after functions lowered before it.       *)
C6_NoObjectWithNonFunction ==
    /\ object_written =>
          /\ \A i \in 1..Len(ast) : IsFunction(ast[i])
          /\ Len(module) = Len(ast)
    /\ \A i \in 1..Len(ast) : i < item => IsFunction(ast[i])
    /\ (item <= Len(ast) /\ ~IsFunction(ast[item])) => pc \in {"start", "translate", "panic"}

C6_Witness ==
    /\ pc = "panic"
    /\ abort = PanicTopLevel
    /\ item = 2
    /\ Len(module) = 1
    /\ IsFunction(ast[1])
    /\ ~object_written

(* The value a lowered function returns when run: the instructions in      *)
(* order, signed division truncating toward zero.  None when no return is  *)
(* reached or a division traps.  An 8-bit result wraps; the literals of    *)
(* the model keep every wider result far inside its width.                 *)
Wrap(n, ty) == IF ty = "I8" THEN ((n + 128) % 256) - 128 ELSE n
Abs(n) == IF n < 0 THEN 0 - n ELSE n
SDiv(a, b) == IF (a < 0) = (b < 0) THEN Abs(a) \div Abs(b) ELSE 0 - (Abs(a) \div Abs(b))

RECURSIVE Run(_, _, _)
Run(insts, k, vals) ==
    IF k > Len(insts) THEN None
    ELSE LET i == insts[k]
             a == vals[i.args[1] + 1]
             b == vals[i.args[2] + 1] IN
         CASE i.op = "return" -> Some([j \in 1..Len(i.args) |-> vals[i.args[j] + 1]])
           [] i.op = "iconst" -> Run(insts, k + 1, Append(vals, Wrap(i.imm, i.ty)))
           [] i.op = "iadd" -> Run(insts, k + 1, Append(vals, Wrap(a + b, i.ty)))
           [] i.op = "isub" -> Run(insts, k + 1, Append(vals, Wrap(a - b, i.ty)))
           [] i.op = "imul" -> Run(insts, k + 1, Append(vals, Wrap(a * b, i.ty)))
           [] i.op = "sdiv" -> IF b = 0 THEN None
                               ELSE Run(insts, k + 1, Append(vals, Wrap(SDiv(a, b), i.ty)))

IsDeclare(c) == c.call = "declare_variable"
IsLookup(c) == c.call = "get_variable"

(* The slot of the last declare of `name` among the first n calls of log.  *)
LastDeclared(log, n, name) ==
    LET D == {j \in 1..n : IsDeclare(log[j]) /\ log[j].name = name} IN
    IF D = {} THEN None ELSE log[CHOOSE j \in D : \A d \in D : d <= j].var

Rebinding == <<Assignment("x", IntLit(1)), Assignment("x", IntLit(2)), Return(Identifier("x"))>>

(* C4: a lookup returns the slot of the most recent declare of the name,   *)
(* or none; a declare returns a slot above every slot allocated before it  *)
(* in the function; `x = 1; x = 2; return x` lowers to a function that     *)
(* returns 2.                                                              *)
C4_NewestDeclarationWins ==
    /\ \A k \in 1..Len(calls) :
          /\ IsLookup(calls[k]) => calls[k].var = LastDeclared(calls, k - 1, calls[k].name)
          /\ IsDeclare(calls[k]) =>
                \A j \in 1..(k - 1) : IsDeclare(calls[j]) => calls[j].var[1] < calls[k].var[1]
    /\ \A n \in {"x", "y", "a", "b"} :
          get_variable(ctx, n) = LastDeclared(calls, Len(calls), n)
    /\ \A i \in 1..Len(module) :
          ast[i].body = Rebinding => Run(module[i].insts, 1, <<>>) = Some(<<2>>)

C4_Witness ==
    /\ Len(module) = 1
    /\ ast[1].body = Rebinding
    /\ calls = <<[call |-> "declare_variable", name |-> "x", var |-> Some(0)],
                 [call |-> "declare_variable", name |-> "x", var |-> Some(1)],
                 [call |-> "get_variable", name |-> "x", var |-> Some(1)]>>
    /\ Run(module[1].insts, 1, <<>>) = Some(<<2>>)

RECURSIVE HasKind(_, _)
HasKind(e, kind) == e.kind = kind \/ \E i \in 1..Len(e.sub) : HasKind(e.sub[i], kind)

AtAssignment ==
    /\ InFunction
    /\ param_i > Len(CurFunc.params)
    /\ stmt_i <= Len(CurFunc.body)
    /\ CurFunc.body[stmt_i].kind = "Assignment"

(* C8: in the lowering of `name = e`, every lookup made for e returns the  *)
(* binding in force before the assignment; an identifier of e that is      *)
(* unbound panics and leaves the symbol table as it was; the declare of    *)
(* the new slot for `name` is the last call, after which `name` is bound   *)
(* to that slot and the slot is defined.                                   *)
C8_BindingLoweredFirst ==
    [][AtAssignment =>
        LET e == CurFunc.body[stmt_i]
            T == SubSeq(calls', Len(calls) + 1, Len(calls'))
            plain == ~HasKind(e.sub[1], "Assignment") IN
        /\ \A k \in 1..Len(T) :
              (IsLookup(T[k]) /\ \A j \in 1..(k - 1) : ~IsDeclare(T[j]))
                  => T[k].var = get_variable(ctx, T[k].name)
        /\ (plain /\ \E n \in Idents(e.sub[1]) : get_variable(ctx, n) = None)
              => pc' = "panic" /\ abort' = PanicUndefined /\ ctx' = ctx
        /\ (pc' = "panic" /\ abort' = PanicUndefined)
              => IsLookup(T[Len(T)]) /\ T[Len(T)].var = None
        /\ pc' = "function" =>
              /\ T # <<>>
              /\ IsDeclare(T[Len(T)])
              /\ T[Len(T)].name = e.name
              /\ T[Len(T)].var[1] >= ctx.variable_counter
              /\ get_variable(ctx', e.name) = T[Len(T)].var
              /\ builder'.var_defs[T[Len(T)].var[1] + 1] # None
              /\ plain => /\ ctx'.variable_counter = ctx.variable_counter + 1
                          /\ \A k \in 1..(Len(T) - 1) : IsLookup(T[k])]_vars

C8_Witness ==
    /\ InFunction
    /\ stmt_i = 3
    /\ CurFunc.body[2] = Assignment("x", Infix("Plus", Identifier("x"), IntLit(1)))
    /\ calls = <<[call |-> "declare_variable", name |-> "x", var |-> Some(0)],
                 [call |-> "get_variable", name |-> "x", var |-> Some(0)],
                 [call |-> "declare_variable", name |-> "x", var |-> Some(1)]>>
    /\ builder.var_defs[2] # None

WellTerminated(insts) ==
    /\ insts # <<>>
    /\ \A k \in 1..Len(insts) : (insts[k].op = "return") <=> (k = Len(insts))

(* C9 as stated: the entry block of every function that is finalized ends  *)
(* with a return and holds no instruction after a return.                  *)
C9_AlwaysWellTerminated ==
    finalized => WellTerminated(builder.insts)

(* C10 as stated: a return instruction carries as many values as the       *)
(* signature has returns.                                                  *)
C10_ReturnMatchesSignature ==
    InFunction =>
        \A k \in 1..Len(builder.insts) :
            builder.insts[k].op = "return" =>
                Len(builder.insts[k].args) = Len(func_sig.returns)

RECURSIVE Arithmetic(_, _)
Arithmetic(e, names) ==
    \/ e.kind \in {"Int", "Bool"}
    \/ e.kind = "Identifier" /\ e.name \in names
    \/ /\ e.kind = "Infix"
       /\ e.name \in {"Plus", "Min", "Mul", "Div"}
       /\ Arithmetic(e.sub[1], names)
       /\ Arithmetic(e.sub[2], names)

(* A function of C1: parameters, none of type Unit or Hole, and a body     *)
(* that returns an arithmetic expression over them.                        *)
ArithmeticOverParams(f) ==
    /\ f.params # <<>>
    /\ \A i \in 1..Len(f.params) : f.params[i].ty \notin {Unit, Hole}
    /\ f.return_ty \notin {Unit, Hole}
    /\ f.body # <<>>
    /\ \A k \in 1..Len(f.body) :
          /\ f.body[k].kind = "Return"
          /\ Arithmetic(f.body[k].sub[1], {f.params[i].name : i \in 1..Len(f.params)})

(* C1 as stated: the lowering of such a function does not panic (a panic   *)
(* of the host setup, before any function is lowered, set aside).          *)
C1_LowersWithoutAbort ==
    (item <= Len(ast) /\ IsFunction(CurFunc) /\ ArithmeticOverParams(CurFunc))
        => ~(pc = "panic" /\ abort \notin SetupPanics)

UnitsTrailing(params) ==
    \A i, j \in 1..Len(params) : (i < j /\ params[i].ty = Unit) => params[j].ty = Unit

(* C7 as stated: when the Unit parameters follow all the others, the       *)
(* binding of the parameters does not panic.                               *)
C7_TrailingUnitBinds ==
    (item <= Len(ast) /\ IsFunction(CurFunc) /\ UnitsTrailing(CurFunc.params)
       /\ \E i \in 1..Len(CurFunc.params) : CurFunc.params[i].ty = Unit)
        => ~(pc = "panic" /\ abort \in {PanicParamTys, PanicBlockParams})

====
